---- MODULE Spec2Model ----
(***************************************************************************)
(* Model of scripts/update_citations.py: the retry loop of                 *)
(* get_citation_count_direct, the three extraction methods, the two        *)
(* regex patchers update_yaml_file / update_index_html, and main().        *)
(*                                                                         *)
(* Text is modelled as a sequence of tokens.  A digit, a comma and a sign  *)
(* are one-character tokens; a word the code searches for ("Citations",    *)
(* "CAPTCHA", "unusual traffic", the GOOGLE SCHOLAR CITATIONS caption) is  *)
(* one token.  data/content.yml is a sequence of lines, index.html a       *)
(* sequence of elements, a fetched page a sequence of items in document    *)
(* order.                                                                  *)
(***************************************************************************)
EXTENDS Integers, Sequences, FiniteSets, TLC

VARIABLES pc,             \* position of the process
          attempt,        \* loop variable of the retry loop
          fetches,        \* number of requests.get calls made so far
          failed,         \* number of "Attempt n failed" lines printed
          response,       \* the response of the current attempt
          outcome,        \* how the try block of the current attempt ended
          citation_count, \* main()'s citation_count
          yaml,           \* data/content.yml
          html,           \* index.html
          yaml0,          \* data/content.yml when the process started
          html0,          \* index.html when the process started
          yaml_log,       \* the console line update_yaml_file ended with
          html_log,       \* the console line update_index_html ended with
          exit_status     \* process exit status, meaningful when pc = "exit"

vars == <<pc, attempt, fetches, failed, response, outcome, citation_count,
          yaml, html, yaml0, html0, yaml_log, html_log, exit_status>>

MAX_RETRIES == 5

\* Bounds of the model.
MaxCellLen == 2   \* tokens in the text of a table cell
MaxItems == 2     \* items (rows, cells, words) of a fetched page
MaxEntries == 3   \* list entries of data/content.yml
MaxElems == 3     \* elements of index.html

SeqsUpTo(S, n) == UNION {[1..k -> S] : k \in 0..n}

(***************************************************************************)
(* Text helpers: str.lower, int(), str(int), str.replace(',', '')          *)
(***************************************************************************)
Lower(tok) ==
    CASE tok = "Citations" -> "citations"
      [] tok = "Unusual Traffic" -> "unusual traffic"
      [] tok = "Google Scholar Citations" -> "google scholar citations"
      [] tok = "GOOGLE SCHOLAR CITATIONS" -> "google scholar citations"
      [] tok = "PUBLICATIONS" -> "publications"
      [] OTHER -> tok

DigitChars == {"0", "1", "2", "3", "4", "5", "6", "7", "8", "9"}

DigitVal(c) ==
    CASE c = "0" -> 0 [] c = "1" -> 1 [] c = "2" -> 2 [] c = "3" -> 3
      [] c = "4" -> 4 [] c = "5" -> 5 [] c = "6" -> 6 [] c = "7" -> 7
      [] c = "8" -> 8 [] c = "9" -> 9

DigitChar(d) ==
    CASE d = 0 -> "0" [] d = 1 -> "1" [] d = 2 -> "2" [] d = 3 -> "3"
      [] d = 4 -> "4" [] d = 5 -> "5" [] d = 6 -> "6" [] d = 7 -> "7"
      [] d = 8 -> "8" [] d = 9 -> "9"

\* \d+ : a non-empty run of digits
IsDigits(s) == Len(s) >= 1 /\ \A i \in 1..Len(s) : s[i] \in DigitChars

RECURSIVE DigitsValue(_)
DigitsValue(s) ==
    IF s = <<>> THEN 0
    ELSE 10 * DigitsValue(SubSeq(s, 1, Len(s) - 1)) + DigitVal(s[Len(s)])

\* citation_text.replace(',', '')
RemoveCommas(s) == SelectSeq(s, LAMBDA c : c # ",")

\* int(s): an optional sign and a non-empty run of digits, else ValueError.
\* (Python's int is unbounded, so no width applies.)
ParseInt(s) ==
    IF IsDigits(s) THEN [ok |-> TRUE, val |-> DigitsValue(s)]
    ELSE IF Len(s) >= 2 /\ s[1] = "-" /\ IsDigits(Tail(s))
         THEN [ok |-> TRUE, val |-> 0 - DigitsValue(Tail(s))]
    ELSE IF Len(s) >= 2 /\ s[1] = "+" /\ IsDigits(Tail(s))
         THEN [ok |-> TRUE, val |-> DigitsValue(Tail(s))]
    ELSE [ok |-> FALSE, val |-> 0]

RECURSIVE NatToStr(_)
NatToStr(n) ==
    IF n < 10 THEN <<DigitChar(n)>>
    ELSE NatToStr(n \div 10) \o <<DigitChar(n % 10)>>

\* f"{new_count}" for an int
ToStr(n) == IF n < 0 THEN <<"-">> \o NatToStr(0 - n) ELSE NatToStr(n)

(***************************************************************************)
(* Fetched pages.  An item is a row of the statistics table (its td        *)
(* cells), a td cell outside that table, or a word of text.                *)
(***************************************************************************)
ValueAlphabet == {"7", ",", "-"}
ValueTexts == SeqsUpTo(ValueAlphabet, MaxCellLen)
LabelTexts == {<<"Citations">>, <<"h-index">>}
PageWords == {"Citations", "7", ",", "CAPTCHA", "Unusual Traffic"}

Cell(styled, text) == [styled |-> styled, text |-> text]

RowItems ==
    {[kind |-> "row", cells |-> <<Cell(FALSE, l)>>, tok |-> ""] : l \in LabelTexts}
    \cup {[kind |-> "row", cells |-> <<Cell(FALSE, l), Cell(TRUE, v)>>, tok |-> ""] :
             l \in LabelTexts, v \in ValueTexts}
CellItems == {[kind |-> "cell", cells |-> <<Cell(TRUE, v)>>, tok |-> ""] : v \in ValueTexts}
WordItems == {[kind |-> "text", cells |-> <<>>, tok |-> w] : w \in PageWords}

\* A page with the statistics table may hold rows; one without it holds none.
PagesUpTo(n) ==
    {[hasTable |-> TRUE, items |-> s] :
        s \in SeqsUpTo(RowItems \cup CellItems \cup WordItems, n)}
    \cup {[hasTable |-> FALSE, items |-> s] :
        s \in SeqsUpTo(CellItems \cup WordItems, n)}
Pages == PagesUpTo(MaxItems)

EmptyPage == [hasTable |-> FALSE, items |-> <<>>]

ErrorStatuses == {404, 503}
NetworkErrors == {[kind |-> "error", status |-> 0, page |-> EmptyPage]}
HttpErrors == {[kind |-> "http", status |-> s, page |-> EmptyPage] : s \in ErrorStatuses}
OkResponses(P) == {[kind |-> "http", status |-> 200, page |-> p] : p \in P}
Responses(P) == NetworkErrors \cup HttpErrors \cup OkResponses(P)

NoResponse == [kind |-> "none", status |-> 0, page |-> EmptyPage]

RECURSIVE Concat(_)
Concat(ss) == IF ss = <<>> THEN <<>> ELSE Head(ss) \o Concat(Tail(ss))

\* response.text: the tokens of the page in document order
RenderCell(c) == <<"<td>">> \o c.text \o <<"</td>">>
RenderItem(it) ==
    IF it.kind = "text" THEN <<it.tok>>
    ELSE IF it.kind = "cell" THEN RenderCell(it.cells[1])
    ELSE <<"<tr>">> \o Concat([i \in 1..Len(it.cells) |-> RenderCell(it.cells[i])])
         \o <<"</tr>">>
ResponseText(page) == Concat([i \in 1..Len(page.items) |-> RenderItem(page.items[i])])

\* stats_table.find_all('tr')
TableRows(page) ==
    IF page.hasTable THEN SelectSeq(page.items, LAMBDA it : it.kind = "row") ELSE <<>>

\* soup.find_all('td', {'class': 'gsc_rsb_std'})
StyledCells(page) ==
    SelectSeq(Concat([i \in 1..Len(page.items) |-> page.items[i].cells]),
              LAMBDA c : c.styled)

\* 'citations' in header, header = cells[0].get_text(strip=True).lower()
HasCitations(text) == \E i \in 1..Len(text) : Lower(text[i]) = "citations"

Returned(v, by) == [kind |-> "return", val |-> v, why |-> by]
Raised(k, w) == [kind |-> k, val |-> 0, why |-> w]
NoOutcome == [kind |-> "none", val |-> 0, why |-> ""]

\* int(citation_text.replace(',', '')) followed by return
ParseAndReturn(text, by) ==
    LET r == ParseInt(RemoveCommas(text))
    IN IF r.ok THEN Returned(r.val, by) ELSE Raised("Exception", "ValueError")

\* Method 1: the first row with two cells whose first cell contains 'citations'
Method1Rows(page) ==
    {i \in 1..Len(TableRows(page)) :
        /\ Len(TableRows(page)[i].cells) >= 2
        /\ HasCitations(TableRows(page)[i].cells[1].text)}
Min(S) == CHOOSE x \in S : \A y \in S : x <= y

\* Method 3: re.search(r'Citations.*?(\d+(?:,\d+)?)', text, IGNORECASE | DOTALL)
\* The match starts at the leftmost "citations" that a digit follows; group 1 is
\* the first digit run after it, extended by one ",digits" group when present.
DigitRunEnd(t, j) ==
    Min({k \in j..Len(t) : k = Len(t) \/ t[k + 1] \notin DigitChars})
RegexGroup(t) ==
    LET starts == {i \in 1..Len(t) :
                      /\ Lower(t[i]) = "citations"
                      /\ \E j \in (i + 1)..Len(t) : t[j] \in DigitChars}
    IN IF starts = {} THEN <<>>
       ELSE LET i == Min(starts)
                j == Min({k \in (i + 1)..Len(t) : t[k] \in DigitChars})
                e == DigitRunEnd(t, j)
            IN IF e + 2 <= Len(t) /\ t[e + 1] = "," /\ t[e + 2] \in DigitChars
               THEN SubSeq(t, j, DigitRunEnd(t, e + 2))
               ELSE SubSeq(t, j, e)

\* "CAPTCHA" in response.text or "unusual traffic" in response.text.lower()
HasBlockMarker(t) ==
    \E i \in 1..Len(t) : t[i] = "CAPTCHA" \/ Lower(t[i]) = "unusual traffic"

\* The body of the try block for a response with a success status (lines 76-119).
ParsePage(page) ==
    LET rows == TableRows(page)
        m1 == Method1Rows(page)
        styled == StyledCells(page)
        text == ResponseText(page)
        g == RegexGroup(text)
    IN IF m1 # {} THEN ParseAndReturn(rows[Min(m1)].cells[2].text, "method1")
       ELSE IF Len(styled) >= 1 THEN ParseAndReturn(styled[1].text, "method2")
       ELSE IF g # <<>> THEN ParseAndReturn(g, "method3")
       ELSE IF HasBlockMarker(text) THEN Raised("Exception", "captcha")
       ELSE Raised("Exception", "notfound")

\* response.raise_for_status()
RaiseForStatus(status) == status >= 400 /\ status < 600

\* The try block of one attempt (lines 42-119): what it returns or raises.
AttemptOutcome(r) ==
    IF r.kind = "error" THEN Raised("RequestException", "network")
    ELSE IF RaiseForStatus(r.status) THEN Raised("RequestException", "http")
    ELSE ParsePage(r.page)

(***************************************************************************)
(* data/content.yml: a sequence of lines.  A line holds one field; dash    *)
(* says that it opens a list entry ("- name: ..."), q is how its value is  *)
(* quoted, val the tokens of the value.                                    *)
(***************************************************************************)
Line(kind, dash, q, val) == [kind |-> kind, dash |-> dash, q |-> q, val |-> val]

NameLine(dash, label) == Line("name", dash, "single", <<label>>)
ImageLine(dash) == Line("image", dash, "none", <<"img/icon.png">>)
BlankLine == Line("blank", FALSE, "none", <<>>)

GscLabels == {"GOOGLE SCHOLAR CITATIONS", "Google Scholar Citations"}
OtherLabel == "PUBLICATIONS"

\* The count fields the files of the model hold: quoted 5, quoted 41, bare 5.
CountForms == {[q |-> "single", val |-> <<"5">>], [q |-> "single", val |-> <<"4", "1">>],
               [q |-> "none", val |-> <<"5">>]}
CountLine(dash, f) == Line("count", dash, f.q, f.val)

\* A list entry by the order of its fields.
EntryNIC(l, f) == <<NameLine(TRUE, l), ImageLine(FALSE), CountLine(FALSE, f)>>
EntryNCI(l, f) == <<NameLine(TRUE, l), CountLine(FALSE, f), ImageLine(FALSE)>>
EntryCNI(l, f) == <<CountLine(TRUE, f), NameLine(FALSE, l), ImageLine(FALSE)>>
EntryNBIC(l, f) == <<NameLine(TRUE, l), BlankLine, ImageLine(FALSE), CountLine(FALSE, f)>>
EntryNI(l) == <<NameLine(TRUE, l), ImageLine(FALSE)>>

GscEntries ==
    {EntryNIC(l, f) : l \in GscLabels, f \in CountForms}
    \cup {EntryNCI("GOOGLE SCHOLAR CITATIONS", f) : f \in CountForms}
    \cup {EntryCNI("GOOGLE SCHOLAR CITATIONS", f) : f \in CountForms}
    \cup {EntryNBIC("GOOGLE SCHOLAR CITATIONS", [q |-> "single", val |-> <<"5">>]),
          EntryNI("GOOGLE SCHOLAR CITATIONS")}
OtherEntries ==
    {EntryNIC(OtherLabel, f) : f \in CountForms} \cup {EntryNI(OtherLabel)}

IsGscName(l) == l.kind = "name" /\ Lower(l.val[1]) = "google scholar citations"
HasGscName(e) == \E i \in 1..Len(e) : IsGscName(e[i])

\* Files of up to MaxEntries list entries, at most one of them the
\* GOOGLE SCHOLAR CITATIONS entry.
YamlContents ==
    {Concat(es) : es \in {s \in SeqsUpTo(GscEntries \cup OtherEntries, MaxEntries) :
                             Cardinality({i \in 1..Len(s) : HasGscName(s[i])}) <= 1}}

File(c) == [exists |-> TRUE, content |-> c]
Missing == [exists |-> FALSE, content |-> <<>>]

\* ['\"](\d+)['\"] after "count:"
IsQuotedCount(l) == l.kind = "count" /\ l.q \in {"single", "double"} /\ IsDigits(l.val)

\* \s* across line ends: the next line that is not blank, 0 when there is none
NextNonBlank(c, i) ==
    IF \E j \in (i + 1)..Len(c) : c[j].kind # "blank"
    THEN Min({j \in (i + 1)..Len(c) : c[j].kind # "blank"})
    ELSE 0

\* pattern (line 156) matched at line i: "- name: GOOGLE SCHOLAR CITATIONS", then
\* an "image:" line, then a "count:" line with a quoted run of digits.  The
\* result is the index of the count line, 0 when the pattern does not match at i.
StrictMatchAt(c, i) ==
    LET a == NextNonBlank(c, i)
        b == IF a = 0 THEN 0 ELSE NextNonBlank(c, a)
    IN IF /\ IsGscName(c[i]) /\ c[i].dash
          /\ a # 0 /\ c[a].kind = "image" /\ ~c[a].dash
          /\ b # 0 /\ IsQuotedCount(c[b]) /\ ~c[b].dash
       THEN b ELSE 0
StrictMatches(c) == {StrictMatchAt(c, i) : i \in 1..Len(c)} \ {0}

\* pattern2 (line 171): "name: GOOGLE SCHOLAR CITATIONS", then lazily anything up
\* to the first "count:" with a quoted run of digits.  count=1: the leftmost match.
LooseMatch(c) ==
    LET starts == {i \in 1..Len(c) :
                      IsGscName(c[i]) /\ \E j \in (i + 1)..Len(c) : IsQuotedCount(c[j])}
    IN IF starts = {} THEN 0
       ELSE Min({j \in (Min(starts) + 1)..Len(c) : IsQuotedCount(c[j])})

\* rf"\g<1>{new_count}\g<3>": the text that replaces group 2
Replacement(old, new_count) == ToStr(new_count)

\* re.sub over the matched fields at the indices in at
SubstituteYaml(c, at, new_count) ==
    [i \in 1..Len(c) |->
        IF i \in at THEN [c[i] EXCEPT !.val = Replacement(c[i].val, new_count)]
        ELSE c[i]]

\* The text update_yaml_file writes back and the line it prints (lines 156-183).
PatchYaml(c, new_count) ==
    IF StrictMatches(c) # {}
    THEN [log |-> "updated", content |-> SubstituteYaml(c, StrictMatches(c), new_count)]
    ELSE IF LooseMatch(c) # 0
    THEN [log |-> "updated", content |-> SubstituteYaml(c, {LooseMatch(c)}, new_count)]
    ELSE [log |-> "notfound", content |-> c]

(***************************************************************************)
(* index.html: a sequence of elements.  An img element has an alt text and *)
(* is self-closed ("/>") or not; a p element has a data-count attribute    *)
(* value (dc, empty when the attribute is absent).                         *)
(***************************************************************************)
Elem(kind, alt, sc, dc) == [kind |-> kind, alt |-> alt, sc |-> sc, dc |-> dc]

HtmlElems ==
    {Elem("img", "GOOGLE SCHOLAR CITATIONS", TRUE, <<>>),
     Elem("img", "GOOGLE SCHOLAR CITATIONS", FALSE, <<>>),
     Elem("img", OtherLabel, TRUE, <<>>),
     Elem("ws", "", FALSE, <<>>),
     Elem("p", "", FALSE, <<"4", "1">>),
     Elem("p", "", FALSE, <<"5">>),
     Elem("p", "", FALSE, <<>>),
     Elem("text", "", FALSE, <<"0">>)}

HtmlContents == SeqsUpTo(HtmlElems, MaxElems)

\* <img[^>]*alt="GOOGLE SCHOLAR CITATIONS"[^>]*/>
IsGscImg(e) == e.kind = "img" /\ Lower(e.alt) = "google scholar citations" /\ e.sc

\* \s* : the next element that is not whitespace, 0 when there is none
NextNonSpace(c, i) ==
    IF \E j \in (i + 1)..Len(c) : c[j].kind # "ws"
    THEN Min({j \in (i + 1)..Len(c) : c[j].kind # "ws"})
    ELSE 0

\* The p element that follows the GOOGLE SCHOLAR CITATIONS image at i, 0 if none.
GscParagraphAt(c, i) ==
    LET j == NextNonSpace(c, i)
    IN IF IsGscImg(c[i]) /\ j # 0 /\ c[j].kind = "p" THEN j ELSE 0

\* pattern (line 207) matched at element i: the index of the p element whose
\* data-count is a run of digits, 0 when the pattern does not match at i.
HtmlMatchAt(c, i) ==
    LET j == GscParagraphAt(c, i)
    IN IF j # 0 /\ IsDigits(c[j].dc) THEN j ELSE 0
HtmlMatches(c) == {HtmlMatchAt(c, i) : i \in 1..Len(c)} \ {0}

SubstituteHtml(c, at, new_count) ==
    [i \in 1..Len(c) |->
        IF i \in at THEN [c[i] EXCEPT !.dc = Replacement(c[i].dc, new_count)]
        ELSE c[i]]

\* The text update_index_html writes back and the line it prints (lines 207-221).
PatchHtml(c, new_count) ==
    IF HtmlMatches(c) # {}
    THEN [log |-> "updated", content |-> SubstituteHtml(c, HtmlMatches(c), new_count)]
    ELSE [log |-> "notfound", content |-> c]

\* What a failed open(path, 'w') / f.write leaves on disk: the old text when the
\* open fails, the empty file when the open has truncated it and the write
\* fails.  (A partly written text is a third outcome the model leaves out.)
AfterFailedWrite(old, new) == {old, <<>>}

(***************************************************************************)
(* The process: main() and the functions it calls.                         *)
(***************************************************************************)
\* for attempt in range(1, MAX_RETRIES + 1) ... if attempt < MAX_RETRIES
RetryingOffByOne(a) == a <= MAX_RETRIES
Retrying(a) == a < MAX_RETRIES

\* except requests.exceptions.RequestException / except Exception
CaughtNetworkOnly(kind) == kind = "RequestException"
Caught(kind) == kind \in {"RequestException", "Exception"}

\* sys.exit(1) after the last attempt; without it the function would return
\* and main() would go on to update_yaml_file
OnExhaustedFallThrough == "yaml"
OnExhausted == "exit"

\* except Exception in update_yaml_file: print and return, main() goes on
YamlErrorPropagates == "exit"
AfterYamlError == "html"

\* sys.exit(1) in the except clause of update_index_html; without it the
\* status would stay what a normal return of main() gives
HtmlErrorSwallowed == exit_status
HtmlErrorStatus == 1

IoOutcomes == {"ok", "read_error", "write_error"}

\* requests.get(...) of one attempt, over the pages in P
Request(P) ==
    /\ pc = "fetch"
    /\ \E r \in Responses(P) : response' = r
    /\ fetches' = fetches + 1
    /\ outcome' = NoOutcome
    /\ pc' = "parse"
    /\ UNCHANGED <<attempt, failed, citation_count, yaml, html, yaml0, html0,
                   yaml_log, html_log, exit_status>>

\* The rest of the attempt: raise_for_status, the three methods, the except
\* clauses and the retry-or-exit test (lines 74-130).
Parse ==
    /\ pc = "parse"
    /\ LET o == AttemptOutcome(response)
       IN /\ outcome' = o
          /\ IF o.kind = "return"
             THEN /\ citation_count' = o.val
                  /\ pc' = "yaml"
                  /\ UNCHANGED <<attempt, failed, exit_status>>
             ELSE IF ~Caught(o.kind)
             THEN /\ pc' = "exit"
                  /\ exit_status' = 1
                  /\ UNCHANGED <<attempt, failed, citation_count>>
             ELSE IF Retrying(attempt)
             THEN /\ attempt' = attempt + 1
                  /\ failed' = failed + 1
                  /\ pc' = "fetch"
                  /\ UNCHANGED <<citation_count, exit_status>>
             ELSE /\ failed' = failed + 1
                  /\ pc' = OnExhausted
                  /\ exit_status' = IF OnExhausted = "exit" THEN 1 ELSE exit_status
                  /\ UNCHANGED <<attempt, citation_count>>
          \* the response of a failed attempt is never read again
          /\ response' = IF o.kind = "return" THEN response ELSE NoResponse
    /\ UNCHANGED <<fetches, yaml, html, yaml0, html0, yaml_log, html_log>>

\* update_yaml_file(CONTENT_FILE, citation_count)
UpdateYaml ==
    /\ pc = "yaml"
    /\ IF ~yaml.exists
       THEN /\ yaml_log' = "missing"
            /\ pc' = "html"
            /\ UNCHANGED <<yaml, exit_status>>
       ELSE \E io \in IoOutcomes :
               LET p == PatchYaml(yaml.content, citation_count)
               IN IF io = "ok"
                  THEN /\ yaml' = File(p.content)
                       /\ yaml_log' = p.log
                       /\ pc' = "html"
                       /\ UNCHANGED exit_status
                  ELSE /\ IF io = "write_error" /\ p.log = "updated"
                          THEN \E c \in AfterFailedWrite(yaml.content, p.content) :
                                  yaml' = File(c)
                          ELSE UNCHANGED yaml
                       /\ yaml_log' = "error"
                       /\ pc' = AfterYamlError
                       /\ exit_status' = IF AfterYamlError = "exit" THEN 1 ELSE exit_status
    /\ UNCHANGED <<attempt, fetches, failed, response, outcome, citation_count,
                   html, yaml0, html0, html_log>>

\* update_index_html(INDEX_FILE, citation_count), then main() returns
UpdateHtml ==
    /\ pc = "html"
    /\ IF ~html.exists
       THEN /\ html_log' = "error"
            /\ exit_status' = HtmlErrorStatus
            /\ UNCHANGED html
       ELSE \E io \in IoOutcomes :
               LET p == PatchHtml(html.content, citation_count)
               IN IF io = "ok"
                  THEN /\ html' = File(p.content)
                       /\ html_log' = p.log
                       /\ exit_status' = 0
                  ELSE /\ IF io = "write_error" /\ p.log = "updated"
                          THEN \E c \in AfterFailedWrite(html.content, p.content) :
                                  html' = File(c)
                          ELSE UNCHANGED html
                       /\ html_log' = "error"
                       /\ exit_status' = HtmlErrorStatus
    /\ pc' = "exit"
    /\ UNCHANGED <<attempt, fetches, failed, response, outcome, citation_count,
                   yaml, yaml0, html0, yaml_log>>

\* The files as the repository keeps them: the entry and the fragment the
\* patterns were written for.
RepoYaml ==
    File(EntryNIC(OtherLabel, [q |-> "single", val |-> <<"5">>])
         \o EntryNIC("GOOGLE SCHOLAR CITATIONS", [q |-> "single", val |-> <<"4", "1">>]))
RepoHtml ==
    File(<<Elem("img", "GOOGLE SCHOLAR CITATIONS", TRUE, <<>>),
           Elem("p", "", FALSE, <<"4", "1">>),
           Elem("text", "", FALSE, <<"0">>)>>)

Start(y, h) ==
    /\ pc = "fetch"
    /\ attempt = 1
    /\ fetches = 0
    /\ failed = 0
    /\ response = NoResponse
    /\ outcome = NoOutcome
    /\ citation_count = 0
    /\ yaml = y /\ yaml0 = y
    /\ html = h /\ html0 = h
    /\ yaml_log = "none"
    /\ html_log = "none"
    /\ exit_status = 0

(***************************************************************************)
(* Spec: the whole run over pages of at most one item and a choice of      *)
(* target files (present or missing, with and without the fields).         *)
(***************************************************************************)
MainPages == PagesUpTo(1)
MainYamlFiles ==
    {Missing, RepoYaml}
    \cup {File(c) : c \in {EntryNI("GOOGLE SCHOLAR CITATIONS"),
                           EntryNCI("GOOGLE SCHOLAR CITATIONS", [q |-> "single", val |-> <<"5">>]),
                           EntryNIC(OtherLabel, [q |-> "single", val |-> <<"5">>])}}
MainHtmlFiles ==
    {Missing, RepoHtml}
    \cup {File(c) : c \in {<<Elem("img", "GOOGLE SCHOLAR CITATIONS", FALSE, <<>>),
                              Elem("p", "", FALSE, <<"4", "1">>)>>,
                            <<Elem("img", "GOOGLE SCHOLAR CITATIONS", TRUE, <<>>),
                              Elem("ws", "", FALSE, <<>>),
                              Elem("p", "", FALSE, <<"5">>)>>,
                            <<Elem("img", "GOOGLE SCHOLAR CITATIONS", TRUE, <<>>),
                              Elem("p", "", FALSE, <<>>)>>}}

Init == \E y \in MainYamlFiles, h \in MainHtmlFiles : Start(y, h)
MainRequest == Request(MainPages)
Next == MainRequest \/ Parse \/ UpdateYaml \/ UpdateHtml
Spec == Init /\ [][Next]_vars

(***************************************************************************)
(* SpecPages: the whole run over every page of the model, on the           *)
(* repository's files.                                                     *)
(***************************************************************************)
InitPages == Start(RepoYaml, RepoHtml)
AnyRequest == Request(Pages)
NextPages == AnyRequest \/ Parse \/ UpdateYaml \/ UpdateHtml
SpecPages == InitPages /\ [][NextPages]_vars

(***************************************************************************)
(* SpecFiles: the two patch steps over every file of the model, entered    *)
(* with a citation count the first attempt returned.                       *)
(***************************************************************************)
NewCounts == {41, 57, 0 - 7}

\* A page whose first styled cell holds n
PageOf(n) ==
    [hasTable |-> FALSE,
     items |-> <<[kind |-> "cell", cells |-> <<Cell(TRUE, ToStr(n))>>, tok |-> ""]>>]

Fetched(n, y, h) ==
    /\ pc = "yaml"
    /\ attempt = 1
    /\ fetches = 1
    /\ failed = 0
    /\ response = [kind |-> "http", status |-> 200, page |-> PageOf(n)]
    /\ outcome = AttemptOutcome(response)
    /\ citation_count = outcome.val
    /\ yaml = y /\ yaml0 = y
    /\ html = h /\ html0 = h
    /\ yaml_log = "none"
    /\ html_log = "none"
    /\ exit_status = 0

InitFiles ==
    \E n \in NewCounts :
        \/ \E c \in YamlContents : Fetched(n, File(c), RepoHtml)
        \/ Fetched(n, Missing, RepoHtml)
        \/ \E c \in HtmlContents : Fetched(n, RepoYaml, File(c))
        \/ Fetched(n, RepoYaml, Missing)
NextFiles == UpdateYaml \/ UpdateHtml
SpecFiles == InitFiles /\ [][NextFiles]_vars

(***************************************************************************)
(* Properties                                                              *)
(***************************************************************************)
FetchSucceeded == outcome.kind = "return"
Exhausted == pc = "exit" /\ ~FetchSucceeded

\* C1: the attempts are made one after another and never more than
\* MAX_RETRIES: a return after k failed attempts happens after exactly k + 1
\* requests (k <= 4) and carries the count of that last response; MAX_RETRIES
\* failed attempts end the process with status 1 after exactly MAX_RETRIES
\* requests.
C1_AttemptsBounded ==
    /\ fetches <= MAX_RETRIES
    /\ (pc = "fetch" => fetches = failed /\ attempt = failed + 1)
    /\ (pc = "parse" => fetches = failed + 1 /\ attempt = fetches)
    /\ (FetchSucceeded =>
           /\ fetches = failed + 1
           /\ failed <= MAX_RETRIES - 1
           /\ response.kind = "http" /\ ~RaiseForStatus(response.status)
           /\ citation_count = AttemptOutcome(response).val)
    /\ (Exhausted =>
           failed = MAX_RETRIES /\ fetches = MAX_RETRIES /\ exit_status = 1)

\* C1 witness: four failed attempts, then the fifth returns a count.
C1_FifthAttemptReturns == pc = "yaml" /\ failed = 4 /\ fetches = 5 /\ FetchSucceeded

\* C2: a response with a success status whose text holds a CAPTCHA or
\* "unusual traffic" marker is never the source of a returned count.
C2_BlockPageNeverReturned ==
    (/\ response.kind = "http"
     /\ ~RaiseForStatus(response.status)
     /\ HasBlockMarker(ResponseText(response.page)))
    => ~FetchSucceeded

\* C3 as claimed: once an attempt found no method to match, the process has
\* exited (no further attempt is prepared).
C3_ParseFailureFatal == outcome.why = "notfound" => pc = "exit"

\* C3 as amended: an attempt in which no method matched is a failed attempt
\* like any other: before the last attempt it is followed by the next attempt,
\* and only on attempt MAX_RETRIES does the process exit, with status 1.
C3_ParseFailureRetried ==
    outcome.why = "notfound" =>
        \/ /\ pc = "fetch"
           /\ failed < MAX_RETRIES /\ attempt = failed + 1 /\ fetches = failed
        \/ /\ pc = "exit" /\ exit_status = 1
           /\ failed = MAX_RETRIES /\ attempt = MAX_RETRIES /\ fetches = MAX_RETRIES

\* C3 witness: the second attempt found no method to match and a third is due.
C3_RetryAfterParseFailure == outcome.why = "notfound" /\ pc = "fetch" /\ attempt = 3

\* C4: no target file is written before a count has been returned: while the
\* fetch loop runs, and at exit when it never returned, both files hold their
\* initial content, neither patch function was entered, and the exit status
\* is 1.
C4_NoWriteWithoutCount ==
    (pc \in {"fetch", "parse"} \/ ~FetchSucceeded) =>
        /\ yaml = yaml0 /\ html = html0
        /\ yaml_log = "none" /\ html_log = "none"
        /\ (pc = "exit" => exit_status = 1)

\* C4 witness: the fetcher is exhausted with both target files present.
C4_ExhaustedWithFiles == Exhausted /\ failed = MAX_RETRIES /\ yaml.exists /\ html.exists

\* The p element after a GOOGLE SCHOLAR CITATIONS image, whatever it holds
GscParagraphs(c) == {GscParagraphAt(c, i) : i \in 1..Len(c)} \ {0}

\* C5 as claimed: at exit with status 0 the data-count attribute of the
\* GOOGLE SCHOLAR CITATIONS paragraph of index.html holds the fetched count.
C5_ExitZeroMeansPatched ==
    (pc = "exit" /\ exit_status = 0) =>
        /\ html.exists
        /\ \E j \in GscParagraphs(html.content) :
              html.content[j].dc = ToStr(citation_count)

\* C5 as amended: at exit with status 0 update_index_html ran without an I/O
\* error: every data-count the pattern matched in index.html holds the fetched
\* count and nothing else changed; when the pattern matched nowhere the file is
\* unchanged (a warning is printed, the status is still 0).
C5_ExitZeroPatchedWhereMatched ==
    (pc = "exit" /\ exit_status = 0) =>
        /\ html.exists /\ html0.exists
        /\ Len(html.content) = Len(html0.content)
        /\ html_log = IF HtmlMatches(html0.content) = {} THEN "notfound" ELSE "updated"
        /\ \A j \in 1..Len(html0.content) :
              IF j \in HtmlMatches(html0.content)
              THEN html.content[j] =
                       [html0.content[j] EXCEPT !.dc = ToStr(citation_count)]
              ELSE html.content[j] = html0.content[j]

\* C5 witness: exit with status 0 after the data-count was rewritten.
C5_ExitZeroAfterRewrite ==
    pc = "exit" /\ exit_status = 0 /\ html_log = "updated" /\ html # html0

\* C6: after a successful fetch no outcome of the structured-data step stops
\* the run or changes the exit status: update_yaml_file is always followed by
\* update_index_html, and the exit status is 1 exactly when the fetcher was
\* exhausted or update_index_html hit an I/O error, and 0 otherwise.
C6_YamlOutcomeNeverFatal ==
    /\ (yaml_log # "none" => FetchSucceeded /\ pc \in {"html", "exit"})
    /\ (pc = "html" => yaml_log # "none" /\ html_log = "none")
    /\ (pc = "exit" /\ FetchSucceeded =>
           /\ yaml_log # "none" /\ html_log # "none"
           /\ exit_status = IF html_log = "error" THEN 1 ELSE 0)
    /\ (pc = "exit" /\ exit_status # 0 =>
           failed = MAX_RETRIES \/ html_log = "error")

\* C6 witness: the structured-data step hit an I/O error and the run still
\* patched index.html and exited with status 0.
C6_YamlErrorThenHtml ==
    pc = "exit" /\ yaml_log = "error" /\ html_log = "updated" /\ exit_status = 0

\* The list entry a line belongs to: the nearest line above it (or itself)
\* that opens an entry
EntryOf(c, i) ==
    IF \E j \in 1..i : c[j].dash THEN CHOOSE j \in 1..i : c[j].dash /\ \A k \in (j + 1)..i : ~c[k].dash
    ELSE 0
GscEntryLines(c) ==
    {i \in 1..Len(c) : \E g \in 1..Len(c) : IsGscName(c[g]) /\ EntryOf(c, g) = EntryOf(c, i)}

\* C7: when update_yaml_file rewrites (by either pattern, with a non-negative
\* count) a data/content.yml whose GOOGLE SCHOLAR CITATIONS entry has a quoted
\* count, the only lines that differ are count lines of that entry, and only
\* in their value.
C7_PatchIsolation ==
    (/\ yaml_log = "updated" /\ citation_count >= 0
     /\ \E i \in GscEntryLines(yaml0.content) : IsQuotedCount(yaml0.content[i])) =>
        /\ Len(yaml.content) = Len(yaml0.content)
        /\ \A i \in 1..Len(yaml0.content) :
              yaml.content[i] # yaml0.content[i] =>
                  /\ i \in GscEntryLines(yaml0.content)
                  /\ yaml0.content[i].kind = "count"
                  /\ yaml.content[i] = [yaml0.content[i] EXCEPT !.val = yaml.content[i].val]

\* The three methods as independent text -> optional int functions
Strategy1(page) ==
    IF Method1Rows(page) # {}
    THEN ParseInt(RemoveCommas(TableRows(page)[Min(Method1Rows(page))].cells[2].text))
    ELSE [ok |-> FALSE, val |-> 0]
Strategy2(page) ==
    IF Len(StyledCells(page)) >= 1
    THEN ParseInt(RemoveCommas(StyledCells(page)[1].text))
    ELSE [ok |-> FALSE, val |-> 0]
Strategy3(page) ==
    IF RegexGroup(ResponseText(page)) # <<>>
    THEN ParseInt(RemoveCommas(RegexGroup(ResponseText(page))))
    ELSE [ok |-> FALSE, val |-> 0]
FirstSuccess(page) ==
    IF Strategy1(page).ok THEN Strategy1(page)
    ELSE IF Strategy2(page).ok THEN Strategy2(page)
    ELSE Strategy3(page)

\* C8: on a response with a success status the attempt returns the value of
\* the first of the three strategies, in order, that yields an integer; a
\* strategy that yields none is followed by the next one on the same page.
C8_FirstSuccessWins ==
    [][(pc = "parse" /\ response.kind = "http" /\ ~RaiseForStatus(response.status)) =>
          IF FirstSuccess(response.page).ok
          THEN outcome'.kind = "return" /\ outcome'.val = FirstSuccess(response.page).val
          ELSE outcome'.kind # "return"]_vars

\* The fields a patch rewrites
YamlFields(c) ==
    IF StrictMatches(c) # {} THEN StrictMatches(c) ELSE {LooseMatch(c)} \ {0}

\* C9: patching a file whose field already holds the text of the count leaves
\* it as it was, and patching a second time with the same count gives the
\* file the first patch gave; for update_yaml_file and update_index_html.
C9_PatchIdempotent ==
    /\ (yaml_log = "updated" =>
           /\ (\A j \in YamlFields(yaml0.content) :
                   yaml0.content[j].val = ToStr(citation_count)) => yaml = yaml0
           /\ PatchYaml(yaml.content, citation_count).content = yaml.content)
    /\ (html_log = "updated" =>
           /\ (\A j \in HtmlMatches(html0.content) :
                   html0.content[j].dc = ToStr(citation_count)) => html = html0
           /\ PatchHtml(html.content, citation_count).content = html.content)

\* C10: every returned citation count is a non-negative integer, so that what
\* the patchers write is a plain run of digits.
C10_CountNonNegative ==
    FetchSucceeded =>
        /\ outcome.val >= 0 /\ citation_count >= 0
        /\ IsDigits(Replacement(<<>>, citation_count))

====
